---------------------------- MODULE Spec2Model ----------------------------
(***************************************************************************)
(* Model of src-tauri/src/rclone/queries/stats.rs: the four stats query    *)
(* commands (get_core_stats, get_core_stats_filtered,                      *)
(* get_completed_transfers, get_job_stats) that POST to the rclone daemon  *)
(* and hand back the parsed JSON or a formatted error string.              *)
(*                                                                         *)
(* Texts (bodies, error strings, group names) are TLA+ strings, handled    *)
(* character by character with Len, SubSeq and \o.  JSON documents are     *)
(* tagged records; an object is a function from its keys to its members.   *)
(***************************************************************************)
EXTENDS Integers, Sequences, FiniteSets, TLC

(***************************************************************************)
(* Text helpers (Rust str operations used by the source).                  *)
(***************************************************************************)
CharAt(s, i) == SubSeq(s, i, i)

\* str::starts_with
StartsWith(s, p) == Len(s) >= Len(p) /\ SubSeq(s, 1, Len(p)) = p

\* &p[n..]
SkipChars(s, n) == SubSeq(s, n + 1, Len(s))

DigitChar(d) == SubSeq("0123456789", d + 1, d + 1)

IsDigit(c) == \E d \in 0..9 : DigitChar(d) = c

DigitVal(c) == CHOOSE d \in 0..9 : DigitChar(d) = c

\* Display of an unsigned integer ({jobid} in format!, the numeric status code).
RECURSIVE ToDecimal(_)
ToDecimal(n) == IF n < 10 THEN DigitChar(n)
                ELSE ToDecimal(n \div 10) \o DigitChar(n % 10)

(***************************************************************************)
(* Option<T>.                                                              *)
(***************************************************************************)
None == [some |-> FALSE]
Some(x) == [some |-> TRUE, v |-> x]

(***************************************************************************)
(* serde_json::Value.                                                      *)
(***************************************************************************)
JNull == [t |-> "null"]
JBool(b) == [t |-> "bool", b |-> b]
JNum(n) == [t |-> "num", n |-> n]
JStr(s) == [t |-> "str", s |-> s]
JArr(a) == [t |-> "arr", a |-> a]
JObj(o) == [t |-> "obj", o |-> o]

\* json!({})
EmptyObject == JObj(<<>>)

\* payload["key"] = value: IndexMut<&str> on an object inserts or replaces the key.
SetKey(obj, key, val) == JObj((key :> val) @@ obj.o)

\* Value::get / get_mut with a string index: only an object that has the key.
HasKey(val, key) == val.t = "obj" /\ key \in DOMAIN val.o

(***************************************************************************)
(* serde_json::from_str::<Value> over the JSON text alphabet of the model: *)
(* blanks, null/true/false, unsigned integers, strings with the escapes    *)
(* \" \\ \/ \n \t, arrays and objects.  A parse position is a 1-based      *)
(* index into the text.  The result is [ok |-> TRUE, v, i] (the value and  *)
(* the position after it) or [ok |-> FALSE, err, i] (the error code and    *)
(* the position it was met at).                                            *)
(***************************************************************************)
POk(v, i) == [ok |-> TRUE, v |-> v, i |-> i]
PErr(e, i) == [ok |-> FALSE, err |-> e, i |-> i]

RECURSIVE SkipWs(_, _)
SkipWs(s, i) == IF i <= Len(s) /\ CharAt(s, i) \in {" ", "\n", "\t", "\r"}
                THEN SkipWs(s, i + 1) ELSE i

\* null, true, false: the word, or the end of the text inside it, or another
\* character.
ParseIdent(s, i, word, val) ==
    LET n == Len(s) - i + 1 IN
    IF n >= Len(word)
    THEN IF SubSeq(s, i, i + Len(word) - 1) = word
         THEN POk(val, i + Len(word))
         ELSE PErr("expected ident", i)
    ELSE IF SubSeq(s, i, Len(s)) = SubSeq(word, 1, n)
         THEN PErr("EOF while parsing a value", Len(s))
         ELSE PErr("expected ident", i)

RECURSIVE ParseDigits(_, _, _)
ParseDigits(s, i, acc) ==
    IF i <= Len(s) /\ IsDigit(CharAt(s, i))
    THEN ParseDigits(s, i + 1, acc * 10 + DigitVal(CharAt(s, i)))
    ELSE POk(JNum(acc), i)

ParseNumber(s, i) ==
    IF CharAt(s, i) = "0" /\ i + 1 <= Len(s) /\ IsDigit(CharAt(s, i + 1))
    THEN PErr("invalid number", i + 1)
    ELSE ParseDigits(s, i, 0)

\* The characters of a string after its opening quote, up to the closing one.
RECURSIVE ParseStr(_, _, _)
ParseStr(s, i, acc) ==
    IF i > Len(s) THEN PErr("EOF while parsing a string", Len(s))
    ELSE LET c == CharAt(s, i) IN
         IF c = "\"" THEN POk(acc, i + 1)
         ELSE IF c \in {"\n", "\t", "\r"}
         THEN PErr("control character (\\u0000-\\u001F) found while parsing a string", i)
         ELSE IF c # "\\" THEN ParseStr(s, i + 1, acc \o c)
         ELSE IF i + 1 > Len(s) THEN PErr("EOF while parsing a string", Len(s))
         ELSE LET e == CharAt(s, i + 1) IN
              IF e \in {"\"", "\\", "/"} THEN ParseStr(s, i + 2, acc \o e)
              ELSE IF e = "n" THEN ParseStr(s, i + 2, acc \o "\n")
              ELSE IF e = "t" THEN ParseStr(s, i + 2, acc \o "\t")
              ELSE PErr("invalid escape", i + 1)

RECURSIVE ParseValue(_, _)
RECURSIVE ParseElements(_, _, _)
RECURSIVE ParseMembers(_, _, _)

\* After "[" or after a ",": the next element, then "," or "]".
ParseElements(s, i, acc) ==
    LET r == ParseValue(s, i) IN
    IF ~r.ok THEN r
    ELSE LET j == SkipWs(s, r.i)
             items == Append(acc, r.v)
         IN IF j > Len(s) THEN PErr("EOF while parsing a list", Len(s))
            ELSE IF CharAt(s, j) = "]" THEN POk(JArr(items), j + 1)
            ELSE IF CharAt(s, j) # "," THEN PErr("expected ',' or ']'", j)
            ELSE LET k == SkipWs(s, j + 1) IN
                 IF k <= Len(s) /\ CharAt(s, k) = "]"
                 THEN PErr("trailing comma", k)
                 ELSE ParseElements(s, k, items)

\* After "{" or after a ",": the next "key": value, then "," or "}".  A key met
\* twice keeps its last value.
ParseMembers(s, i, acc) ==
    LET j == SkipWs(s, i) IN
    IF j > Len(s) THEN PErr("EOF while parsing an object", Len(s))
    ELSE IF CharAt(s, j) # "\"" THEN PErr("key must be a string", j)
    ELSE LET key == ParseStr(s, j + 1, "") IN
         IF ~key.ok THEN key
         ELSE LET c == SkipWs(s, key.i) IN
              IF c > Len(s) THEN PErr("EOF while parsing an object", Len(s))
              ELSE IF CharAt(s, c) # ":" THEN PErr("expected ':'", c)
              ELSE LET r == ParseValue(s, c + 1) IN
                   IF ~r.ok THEN r
                   ELSE LET m == SkipWs(s, r.i)
                            members == (key.v :> r.v) @@ acc
                        IN IF m > Len(s)
                           THEN PErr("EOF while parsing an object", Len(s))
                           ELSE IF CharAt(s, m) = "}" THEN POk(JObj(members), m + 1)
                           ELSE IF CharAt(s, m) # ","
                           THEN PErr("expected ',' or '}'", m)
                           ELSE LET k == SkipWs(s, m + 1) IN
                                IF k <= Len(s) /\ CharAt(s, k) = "}"
                                THEN PErr("trailing comma", k)
                                ELSE ParseMembers(s, k, members)

ParseValue(s, i) ==
    LET j == SkipWs(s, i) IN
    IF j > Len(s) THEN PErr("EOF while parsing a value", Len(s))
    ELSE LET c == CharAt(s, j) IN
         IF c = "n" THEN ParseIdent(s, j, "null", JNull)
         ELSE IF c = "t" THEN ParseIdent(s, j, "true", JBool(TRUE))
         ELSE IF c = "f" THEN ParseIdent(s, j, "false", JBool(FALSE))
         ELSE IF IsDigit(c) THEN ParseNumber(s, j)
         ELSE IF c = "\"" THEN
              LET r == ParseStr(s, j + 1, "") IN
              IF r.ok THEN POk(JStr(r.v), r.i) ELSE r
         ELSE IF c = "[" THEN
              LET k == SkipWs(s, j + 1) IN
              IF k > Len(s) THEN PErr("EOF while parsing a list", Len(s))
              ELSE IF CharAt(s, k) = "]" THEN POk(JArr(<<>>), k + 1)
              ELSE ParseElements(s, k, <<>>)
         ELSE IF c = "{" THEN
              LET k == SkipWs(s, j + 1) IN
              IF k > Len(s) THEN PErr("EOF while parsing an object", Len(s))
              ELSE IF CharAt(s, k) = "}" THEN POk(EmptyObject, k + 1)
              ELSE ParseMembers(s, k, <<>>)
         ELSE PErr("expected value", j)

\* Display of serde_json::Error: the code and where it was met (the codes are
\* written with ' where serde_json prints a backquote).
ParseErrorText(e) == e.err \o " at line 1 column " \o ToDecimal(e.i)

\* serde_json::from_str: one value, then nothing but blanks.  Ok(value) or
\* Err(description).
FromStr(s) ==
    LET r == ParseValue(s, 1) IN
    IF ~r.ok THEN [ok |-> FALSE, err |-> ParseErrorText(r)]
    ELSE IF SkipWs(s, r.i) <= Len(s)
         THEN [ok |-> FALSE, err |-> ParseErrorText(PErr("trailing characters", SkipWs(s, r.i)))]
         ELSE [ok |-> TRUE, v |-> r.v]

(***************************************************************************)
(* The daemon's side: how it writes a JSON document as text.  pad is what  *)
(* it puts after ":" and ",": nothing (compact) or a blank.                *)
(***************************************************************************)
RECURSIVE EscapeText(_, _)
EscapeText(s, i) ==
    IF i > Len(s) THEN ""
    ELSE LET c == CharAt(s, i) IN
         (IF c \in {"\"", "\\"} THEN "\\" \o c
          ELSE IF c = "\n" THEN "\\n"
          ELSE IF c = "\t" THEN "\\t"
          ELSE c) \o EscapeText(s, i + 1)

RECURSIVE ToText(_, _)
RECURSIVE ElementsText(_, _, _)
RECURSIVE MembersText(_, _, _)

ElementsText(a, i, pad) ==
    IF i > Len(a) THEN ""
    ELSE (IF i > 1 THEN "," \o pad ELSE "") \o ToText(a[i], pad)
         \o ElementsText(a, i + 1, pad)

MembersText(o, keys, pad) ==
    IF keys = {} THEN ""
    ELSE LET k == CHOOSE key \in keys : TRUE IN
         "\"" \o EscapeText(k, 1) \o "\":" \o pad \o ToText(o[k], pad)
         \o (IF keys = {k} THEN "" ELSE "," \o pad)
         \o MembersText(o, keys \ {k}, pad)

ToText(v, pad) ==
    CASE v.t = "null" -> "null"
      [] v.t = "bool" -> IF v.b THEN "true" ELSE "false"
      [] v.t = "num" -> ToDecimal(v.n)
      [] v.t = "str" -> "\"" \o EscapeText(v.s, 1) \o "\""
      [] v.t = "arr" -> "[" \o ElementsText(v.a, 1, pad) \o "]"
      [] v.t = "obj" -> "{" \o MembersText(v.o, DOMAIN v.o, pad) \o "}"

(***************************************************************************)
(* The program.                                                            *)
(***************************************************************************)
\* Bound: the number of invocations that may be in flight together.
MaxCalls == 2

Calls == 1..MaxCalls

Ops == {"get_core_stats", "get_core_stats_filtered",
        "get_completed_transfers", "get_job_stats"}

VARIABLES
    windows,    \* cfg(target_os = "windows"): fixed by the build
    client,     \* state.client: the shared HTTP client handle
    apiBase,    \* ENGINE_STATE.get_api().0: the shared engine API address
    pc,         \* per call: "idle", "send" (awaiting send()), "text" (awaiting text()), "done"
    call,       \* per call: the operation invoked and its parameters
    requests,   \* per call: the requests it has issued, in order
    response,   \* per call: what came back from the transport
    status,     \* per call: the local variable status
    body,       \* per call: the local variable body
    result,     \* per call: the value returned
    trace       \* per call: the steps of the handler taken so far

vars == <<windows, client, apiBase, pc, call, requests, response, status, body,
          result, trace>>

shared == <<client, apiBase>>

Ok(v) == [ok |-> TRUE, v |-> v]
Err(msg) == [ok |-> FALSE, err |-> msg]

\* EndpointHelper::build_url(base, endpoint)
BuildUrl(base, endpoint) == base \o "/" \o endpoint

\* core::STATS, core::TRANSFERRED
CoreStats == "core/stats"
CoreTransferred == "core/transferred"

Endpoint(o) == IF o = "get_completed_transfers" THEN CoreTransferred ELSE CoreStats

\* StatusCode::is_success
IsSuccess(code) == 200 <= code /\ code < 300

\* StatusCode::canonical_reason
CanonicalReason(code) ==
    CASE code = 200 -> "OK"
      [] code = 204 -> "No Content"
      [] code = 300 -> "Multiple Choices"
      [] code = 404 -> "Not Found"
      [] code = 500 -> "Internal Server Error"
      [] OTHER -> "<unknown status code>"

\* Display of StatusCode ({status} in format!): the number and the reason.
StatusText(code) == ToDecimal(code) \o " " \o CanonicalReason(code)

\* Faulty variant: strips the prefix as often as it leads the path.
RECURSIVE NormalizeWindowsPathRepeated(_)
NormalizeWindowsPathRepeated(path) ==
    IF StartsWith(path, "//?/") \/ StartsWith(path, "\\\\?\\")
    THEN NormalizeWindowsPathRepeated(SkipChars(path, 4))
    ELSE path

\* normalize_windows_path
NormalizeWindowsPath(path) ==
    IF StartsWith(path, "//?/") \/ StartsWith(path, "\\\\?\\")
    THEN SkipChars(path, 4)
    ELSE path

\* for field in ["dstFs", "srcFs"]: a string member of an object is rewritten.
NormalizeField(transfer, field) ==
    IF HasKey(transfer, field) /\ transfer.o[field].t = "str"
    THEN JObj([transfer.o EXCEPT ![field] = JStr(NormalizeWindowsPath(@.s))])
    ELSE transfer

NormalizeTransfer(transfer) ==
    NormalizeField(NormalizeField(transfer, "dstFs"), "srcFs")

\* The cfg(windows) block of get_completed_transfers.
NormalizeTransfers(value) ==
    IF HasKey(value, "transferred") /\ value.o["transferred"].t = "arr"
    THEN JObj([value.o EXCEPT !["transferred"] =
                  JArr([i \in DOMAIN @.a |-> NormalizeTransfer(@.a[i])])])
    ELSE value

\* Faulty variant: jobid is looked at before group.
FilteredPayloadJobFirst(jobid, group) ==
    IF jobid.some
    THEN SetKey(EmptyObject, "group", JStr("job/" \o ToDecimal(jobid.v)))
    ELSE IF group.some THEN SetKey(EmptyObject, "group", JStr(group.v))
         ELSE EmptyObject

\* get_core_stats_filtered: the payload.
FilteredPayload(jobid, group) ==
    IF group.some THEN SetKey(EmptyObject, "group", JStr(group.v))
    ELSE IF jobid.some
         THEN SetKey(EmptyObject, "group", JStr("job/" \o ToDecimal(jobid.v)))
         ELSE EmptyObject

\* get_completed_transfers: the payload.
TransfersPayload(group) ==
    IF group.some THEN SetKey(EmptyObject, "group", JStr(group.v))
    ELSE EmptyObject

\* Faulty variant: a given group takes the place of jobid.
JobStatsPayloadGroupReplaces(jobid, group) ==
    IF group.some THEN SetKey(EmptyObject, "group", JStr(group.v))
    ELSE JObj([jobid |-> JNum(jobid)])

\* get_job_stats: the payload.
JobStatsPayload(jobid, group) ==
    LET payload == JObj([jobid |-> JNum(jobid)]) IN
    IF group.some THEN SetKey(payload, "group", JStr(group.v))
    ELSE payload

\* The message each handler puts before the transport error.
SendErrorPrefix(o) ==
    CASE o = "get_core_stats" -> "Failed to get core stats: "
      [] o = "get_core_stats_filtered" -> "Failed to get filtered core stats: "
      [] o = "get_completed_transfers" -> "Failed to get completed transfers: "
      [] o = "get_job_stats" -> "Failed to get job stats: "

\* The message each handler puts before the parse error.
ParseErrorPrefix(o) ==
    CASE o = "get_core_stats" -> "Failed to parse core stats: "
      [] o = "get_core_stats_filtered" -> "Failed to parse filtered core stats: "
      [] o = "get_completed_transfers" -> "Failed to parse completed transfers: "
      [] o = "get_job_stats" -> "Failed to parse job stats: "

\* Faulty variant: the body is cut to its first 16 characters.
HttpErrorTruncated(code, text) ==
    "HTTP " \o StatusText(code) \o ": "
    \o (IF Len(text) > 16 THEN SubSeq(text, 1, 16) ELSE text)

\* format!("HTTP {status}: {body}")
HttpError(code, text) == "HTTP " \o StatusText(code) \o ": " \o text

\* Faulty variant: what was sent is used although reading it failed.
BodyTextIgnoresFailure(resp) == resp.text

\* response.text().await.unwrap_or_default()
BodyText(resp) == IF resp.readable THEN resp.text ELSE ""

\* Faulty variant: the paths are normalized on every platform.
FinishNormalizesEverywhere(o, win, code, text) ==
    IF ~IsSuccess(code)
    THEN [result |-> Err(HttpError(code, text)), steps |-> <<"check">>]
    ELSE LET parsed == FromStr(text) IN
         IF ~parsed.ok
         THEN [result |-> Err(ParseErrorPrefix(o) \o parsed.err),
               steps |-> <<"check", "parse">>]
         ELSE IF o = "get_completed_transfers"
              THEN [result |-> Ok(NormalizeTransfers(parsed.v)),
                    steps |-> <<"check", "parse", "normalize">>]
              ELSE [result |-> Ok(parsed.v), steps |-> <<"check", "parse">>]

\* Faulty variant: a body that does not parse gives the default value (null).
FinishDefaultsOnParseError(o, win, code, text) ==
    IF ~IsSuccess(code)
    THEN [result |-> Err(HttpError(code, text)), steps |-> <<"check">>]
    ELSE LET parsed == FromStr(text) IN
         IF ~parsed.ok
         THEN [result |-> Ok(JNull), steps |-> <<"check", "parse">>]
         ELSE IF o = "get_completed_transfers" /\ win
              THEN [result |-> Ok(NormalizeTransfers(parsed.v)),
                    steps |-> <<"check", "parse", "normalize">>]
              ELSE [result |-> Ok(parsed.v), steps |-> <<"check", "parse">>]

\* Faulty variant: the body is parsed before the status is looked at.
FinishParsesFirst(o, win, code, text) ==
    LET parsed == FromStr(text) IN
    IF ~parsed.ok
    THEN [result |-> Err(ParseErrorPrefix(o) \o parsed.err), steps |-> <<"parse">>]
    ELSE IF ~IsSuccess(code)
         THEN [result |-> Err(HttpError(code, text)), steps |-> <<"parse", "check">>]
         ELSE IF o = "get_completed_transfers" /\ win
              THEN [result |-> Ok(NormalizeTransfers(parsed.v)),
                    steps |-> <<"parse", "check", "normalize">>]
              ELSE [result |-> Ok(parsed.v), steps |-> <<"parse", "check">>]

\* The handler from the status check to its return: the result and the steps
\* taken to it.
Finish(o, win, code, text) ==
    IF ~IsSuccess(code)
    THEN [result |-> Err(HttpError(code, text)), steps |-> <<"check">>]
    ELSE LET parsed == FromStr(text) IN
         IF ~parsed.ok
         THEN [result |-> Err(ParseErrorPrefix(o) \o parsed.err),
               steps |-> <<"check", "parse">>]
         ELSE IF o = "get_completed_transfers" /\ win
              THEN [result |-> Ok(NormalizeTransfers(parsed.v)),
                    steps |-> <<"check", "parse", "normalize">>]
              ELSE [result |-> Ok(parsed.v), steps |-> <<"check", "parse">>]

\* client.post(&url) [.json(&payload)] .send(): the request leaves, the handler
\* awaits the response.
SendRequest(c, o, jobid, group, payload) ==
    /\ pc' = [pc EXCEPT ![c] = "send"]
    /\ call' = [call EXCEPT ![c] = [op |-> o, jobid |-> jobid, group |-> group]]
    /\ requests' = [requests EXCEPT ![c] =
           Append(@, [client |-> client, url |-> BuildUrl(apiBase, Endpoint(o)),
                      payload |-> payload])]
    /\ trace' = [trace EXCEPT ![c] = Append(@, "send")]
    /\ UNCHANGED <<windows, client, apiBase, response, status, body, result>>

\* The four commands, each from its invocation (call c is not yet running) to
\* the await of send().
GetCoreStats(c) ==
    /\ pc[c] = "idle"
    /\ SendRequest(c, "get_core_stats", None, None, None)

GetCoreStatsFiltered(c, jobid, group) ==
    /\ pc[c] = "idle"
    /\ SendRequest(c, "get_core_stats_filtered", jobid, group,
                   Some(FilteredPayload(jobid, group)))

GetCompletedTransfers(c, group) ==
    /\ pc[c] = "idle"
    /\ SendRequest(c, "get_completed_transfers", None, group,
                   Some(TransfersPayload(group)))

GetJobStats(c, jobid, group) ==
    /\ pc[c] = "idle"
    /\ SendRequest(c, "get_job_stats", Some(jobid), group,
                   Some(JobStatsPayload(jobid, group)))

\* Faulty variant: a failed send is tried again (up to three requests).
SendFailedRetries(c, e) ==
    /\ pc[c] = "send"
    /\ IF Len(requests[c]) < 3
       THEN /\ requests' = [requests EXCEPT ![c] = Append(@, @[1])]
            /\ UNCHANGED <<pc, response, result>>
       ELSE /\ pc' = [pc EXCEPT ![c] = "done"]
            /\ response' = [response EXCEPT ![c] = Some([error |-> e])]
            /\ result' = [result EXCEPT ![c] =
                   Some(Err(SendErrorPrefix(call[c].op) \o e))]
            /\ UNCHANGED requests
    /\ UNCHANGED <<windows, client, apiBase, call, status, body, trace>>

\* send().await is an Err(e): map_err(...)? returns the transport error.
SendFailed(c, e) ==
    /\ pc[c] = "send"
    /\ pc' = [pc EXCEPT ![c] = "done"]
    /\ response' = [response EXCEPT ![c] = Some([error |-> e])]
    /\ result' = [result EXCEPT ![c] = Some(Err(SendErrorPrefix(call[c].op) \o e))]
    /\ UNCHANGED <<windows, client, apiBase, call, requests, status, body, trace>>

\* send().await is an Ok(response): the status is taken and the handler awaits
\* the body text.  doc is what the daemon sent; readable is whether reading
\* the body will succeed.
SendOk(c, code, doc, readable) ==
    /\ pc[c] = "send"
    /\ pc' = [pc EXCEPT ![c] = "text"]
    /\ response' = [response EXCEPT ![c] =
           Some([status |-> code, text |-> doc.text, json |-> doc.json,
                 readable |-> readable])]
    /\ status' = [status EXCEPT ![c] = Some(code)]
    /\ trace' = [trace EXCEPT ![c] = Append(@, "status")]
    /\ UNCHANGED <<windows, client, apiBase, call, requests, body, result>>

\* Faulty variant: the body is read into a buffer the calls share, so a call
\* may finish with the body of another call that awaits its own.
ReadBodySharedBuffer(c) ==
    /\ pc[c] = "text"
    /\ \E d \in {k \in Calls : pc[k] = "text"} :
         LET text == BodyText(response[d].v)
             fin == Finish(call[c].op, windows, status[c].v, text)
         IN /\ body' = [body EXCEPT ![c] = Some(text)]
            /\ result' = [result EXCEPT ![c] = Some(fin.result)]
            /\ trace' = [trace EXCEPT ![c] = @ \o <<"text">> \o fin.steps]
    /\ pc' = [pc EXCEPT ![c] = "done"]
    /\ UNCHANGED <<windows, client, apiBase, call, requests, response, status>>

\* text().await resolves; the rest of the handler runs to its return.
ReadBody(c) ==
    /\ pc[c] = "text"
    /\ LET text == BodyText(response[c].v)
           fin == Finish(call[c].op, windows, status[c].v, text)
       IN /\ body' = [body EXCEPT ![c] = Some(text)]
          /\ result' = [result EXCEPT ![c] = Some(fin.result)]
          /\ trace' = [trace EXCEPT ![c] = @ \o <<"text">> \o fin.steps]
    /\ pc' = [pc EXCEPT ![c] = "done"]
    /\ UNCHANGED <<windows, client, apiBase, call, requests, response, status>>

(***************************************************************************)
(* The inputs.                                                             *)
(***************************************************************************)
JobIds == {0, 7, 12}
Groups == {"g1", "", "job/7"}
StatusCodes == {200, 204, 299, 300, 404, 500}
TransportErrors == {"error sending request", "operation timed out"}

\* Documents the daemon answers with.
Documents ==
    { JObj(<<>>),
      JObj([bytes |-> JNum(120), fatalError |-> JBool(FALSE), lastError |-> JNull,
            transferring |-> JArr(<<JObj([srcFs |-> JStr("//?/C:/t")])>>)]),
      JObj([transferred |-> JArr(<<
            JObj([name |-> JStr("f"), srcFs |-> JStr("//?/C:/a"),
                  dstFs |-> JStr("\\\\?\\D:/b")]) >>)]),
      JObj([transferred |-> JArr(<<
            JObj([srcFs |-> JStr("C:/a"), dstFs |-> JNum(7)]),
            JNum(5),
            JObj([name |-> JStr("//?/n")]),
            JArr(<<JStr("//?/x")>>),
            JObj([srcFs |-> JStr("//?///?/z"), dstFs |-> JStr("//?/")]),
            JObj([srcFs |-> JStr("//?"), dstFs |-> JStr("a//?/b")]) >>)]),
      JObj([transferred |-> JStr("//?/x"), srcFs |-> JStr("//?/top")]),
      JObj([transferred |-> JObj([srcFs |-> JStr("//?/in")])]),
      JArr(<<JObj([srcFs |-> JStr("//?/a")])>>),
      JStr("//?/s"),
      JNum(5) }

\* Bodies that are no JSON document.
NotJson == {"", "oops", "<html>", "{\"transferred\":[", "{} x", "{\"a\":1,}", "nul"}

Bodies ==
    {[text |-> ToText(d, pad), json |-> Some(d)] : d \in Documents, pad \in {"", " "}}
    \cup {[text |-> t, json |-> None] : t \in NotJson}

Optional(S) == {None} \cup {Some(v) : v \in S}

\* Option<u64> and Option<String> arguments.
JobIdOptions == Optional(JobIds)
GroupOptions == Optional(Groups)

Init ==
    /\ windows \in BOOLEAN
    /\ client = "client"
    /\ apiBase = "http://127.0.0.1:51900"
    /\ pc = [c \in Calls |-> "idle"]
    /\ call = [c \in Calls |-> None]
    /\ requests = [c \in Calls |-> <<>>]
    /\ response = [c \in Calls |-> None]
    /\ status = [c \in Calls |-> None]
    /\ body = [c \in Calls |-> None]
    /\ result = [c \in Calls |-> None]
    /\ trace = [c \in Calls |-> <<>>]

OneCall == {1}

\* The transport resolves the pending send(): an error, or a response.
SendResolves(c, codes, docs, errors) ==
    \/ \E e \in errors : SendFailed(c, e)
    \/ \E code \in codes, doc \in docs, r \in BOOLEAN : SendOk(c, code, doc, r)

\* An invocation of one of the four commands.
Invoke(c, jobidOptions, jobids, groupOptions) ==
    \/ GetCoreStats(c)
    \/ \E j \in jobidOptions, g \in groupOptions : GetCoreStatsFiltered(c, j, g)
    \/ \E g \in groupOptions : GetCompletedTransfers(c, g)
    \/ \E j \in jobids, g \in groupOptions : GetJobStats(c, j, g)

\* One invocation, with every input.
Next ==
    \E c \in OneCall :
        \/ Invoke(c, JobIdOptions, JobIds, GroupOptions)
        \/ SendResolves(c, StatusCodes, Bodies, TransportErrors)
        \/ ReadBody(c)

Spec == Init /\ [][Next]_vars

\* Interleaved invocations, with fewer inputs.
ConcJobIds == {7}
ConcGroups == {"g1"}
ConcStatusCodes == {200, 500}
ConcErrors == {"error sending request"}
ConcJobIdOptions == {Some(j) : j \in ConcJobIds}
ConcGroupOptions == {Some(g) : g \in ConcGroups}
ConcBodies ==
    {[text |-> ToText(d, ""), json |-> Some(d)] : 
        d \in {JObj([transferred |-> JArr(<<JObj([srcFs |-> JStr("//?/C:/a")])>>)])}}

ConcNext ==
    \E c \in Calls :
        \/ Invoke(c, ConcJobIdOptions, ConcJobIds, ConcGroupOptions)
        \/ SendResolves(c, ConcStatusCodes, ConcBodies, ConcErrors)
        \/ ReadBody(c)

ConcSpec == Init /\ [][ConcNext]_vars

\* A pending await of call c resolves and the handler moves on: send() to an
\* error or a response, text() to the handler's return.
AwaitResolves(c) ==
    \/ /\ pc[c] = "send"
       /\ \E p \in {"text", "done"} : pc' = [pc EXCEPT ![c] = p]
    \/ /\ pc[c] = "text"
       /\ pc' = [pc EXCEPT ![c] = "done"]

\* The same, where the transport resolves every await (with a response or an
\* error) and the runtime resumes the handler.
FairConcSpec == ConcSpec /\ \A c \in Calls : WF_pc(AwaitResolves(c))

(***************************************************************************)
(* Properties.                                                             *)
(***************************************************************************)
Done(c) == pc[c] = "done"

Invoked(c) == pc[c] # "idle"

\* The call got a response (a status line), not a transport error.
Answered(c) == response[c].some /\ "status" \in DOMAIN response[c].v

Returned(c) == result[c].v

\* t occurs in s, whole.
Contains(s, t) == \E i \in 0..(Len(s) - Len(t)) : SubSeq(s, i + 1, i + Len(t)) = t

EndsWith(s, t) == Len(s) >= Len(t) /\ SubSeq(s, Len(s) - Len(t) + 1, Len(s)) = t

\* The error kinds, told apart by how the error string starts.
IsTransportError(r) == ~r.ok /\ StartsWith(r.err, "Failed to get ")
IsStatusError(r) == ~r.ok /\ StartsWith(r.err, "HTTP ")
IsParseError(r) == ~r.ok /\ StartsWith(r.err, "Failed to parse ")

ExtendedPrefixes == {"//?/", "\\\\?\\"}

\* after is before without one leading extended-length prefix, or before itself
\* when no prefix leads it.
StrippedOnce(before, after) ==
    IF \E p \in ExtendedPrefixes : StartsWith(before, p)
    THEN \E p \in ExtendedPrefixes : before = p \o after
    ELSE after = before

\* One element of transferred: only string dstFs/srcFs members of an object may
\* differ, by the prefix.
SameTransferButPaths(before, after) ==
    IF before.t # "obj" THEN after = before
    ELSE /\ after.t = "obj"
         /\ DOMAIN after.o = DOMAIN before.o
         /\ \A k \in DOMAIN before.o :
              IF k \in {"dstFs", "srcFs"} /\ before.o[k].t = "str"
              THEN after.o[k].t = "str" /\ StrippedOnce(before.o[k].s, after.o[k].s)
              ELSE after.o[k] = before.o[k]

\* The whole document: only the elements of a top-level transferred array may
\* differ.
SameDocumentButPaths(before, after) ==
    IF ~(before.t = "obj" /\ "transferred" \in DOMAIN before.o
         /\ before.o["transferred"].t = "arr")
    THEN after = before
    ELSE /\ after.t = "obj"
         /\ DOMAIN after.o = DOMAIN before.o
         /\ \A k \in DOMAIN before.o \ {"transferred"} : after.o[k] = before.o[k]
         /\ after.o["transferred"].t = "arr"
         /\ Len(after.o["transferred"].a) = Len(before.o["transferred"].a)
         /\ \A i \in DOMAIN before.o["transferred"].a :
              SameTransferButPaths(before.o["transferred"].a[i],
                                   after.o["transferred"].a[i])

\* C1 as stated: whenever the daemon answers HTTP 200 with a body that is valid
\* JSON, the operation returns exactly that JSON value, for every operation,
\* parameter combination and platform.
C1_ExactJsonAlways ==
    \A c \in Calls :
        (Done(c) /\ Answered(c) /\ response[c].v.status = 200
                 /\ response[c].v.json.some)
        => Returned(c) = Ok(response[c].v.json.v)

\* C1 amended: whenever the daemon answers HTTP 200 with a body that is valid
\* JSON and the body is read, the operation returns a success value; it is
\* exactly that JSON value, except for get_completed_transfers on the Windows
\* platform, where it is that value with the extended-length prefixes stripped
\* from the dstFs/srcFs strings of the transferred elements.
C1_ExactJsonWhenRead ==
    \A c \in Calls :
        (Done(c) /\ Answered(c) /\ response[c].v.status = 200
                 /\ response[c].v.json.some /\ response[c].v.readable)
        => /\ Returned(c).ok
           /\ IF call[c].op = "get_completed_transfers" /\ windows
              THEN SameDocumentButPaths(response[c].v.json.v, Returned(c).v)
              ELSE Returned(c).v = response[c].v.json.v

\* C1 witness: off Windows, get_completed_transfers has returned a document with
\* prefixed paths exactly as the daemon sent it with HTTP 200.
C1_Witness ==
    \E c \in Calls :
        /\ Done(c) /\ Answered(c) /\ ~windows
        /\ call[c].op = "get_completed_transfers"
        /\ response[c].v.status = 200 /\ response[c].v.readable
        /\ response[c].v.json.some
        /\ HasKey(response[c].v.json.v, "transferred")
        /\ Returned(c) = Ok(response[c].v.json.v)

\* C2 as stated: whenever the response has a status outside the success range,
\* the operation returns an error whose string contains the numeric status code
\* and the exact body text the daemon sent.
C2_ErrorCarriesSentBody ==
    \A c \in Calls :
        (Done(c) /\ Answered(c)
            /\ (response[c].v.status < 200 \/ response[c].v.status >= 300))
        => /\ ~Returned(c).ok
           /\ Contains(Returned(c).err, ToDecimal(response[c].v.status))
           /\ Contains(Returned(c).err, response[c].v.text)

\* C2 amended: whenever the response has a status outside the success range, the
\* operation returns an error whose string contains the numeric status code and
\* ends with the exact body text as read: the text the daemon sent or, when
\* reading the body failed, the empty text.
C2_ErrorCarriesReadBody ==
    \A c \in Calls :
        (Done(c) /\ Answered(c)
            /\ (response[c].v.status < 200 \/ response[c].v.status >= 300))
        => /\ ~Returned(c).ok
           /\ Contains(Returned(c).err, ToDecimal(response[c].v.status))
           /\ EndsWith(Returned(c).err,
                       ": " \o (IF response[c].v.readable THEN response[c].v.text
                                ELSE ""))

\* C2 witness: a 404 with a long body has been read and reported.
C2_Witness ==
    \E c \in Calls :
        /\ Done(c) /\ Answered(c)
        /\ response[c].v.status = 404 /\ response[c].v.readable
        /\ Len(response[c].v.text) > 40
        /\ ~Returned(c).ok
        /\ Contains(Returned(c).err, response[c].v.text)

\* C3: whenever the response has a success status and a body that is no JSON,
\* the operation returns the deserialization error, never a success value.
C3_NonJsonIsParseError ==
    \A c \in Calls :
        (Done(c) /\ Answered(c)
            /\ response[c].v.status >= 200 /\ response[c].v.status < 300
            /\ ~response[c].v.json.some)
        => IsParseError(Returned(c))

\* C3 witness: a body cut in the middle of a document came with a success
\* status and the call ended in an error.
C3_Witness ==
    \E c \in Calls :
        /\ Done(c) /\ Answered(c)
        /\ response[c].v.status = 200 /\ response[c].v.readable
        /\ response[c].v.text = "{\"transferred\":["
        /\ ~Returned(c).ok

\* What a jobid of the model looks like in decimal.
JobIdText(j) == CASE j = 0 -> "0" [] j = 7 -> "7" [] j = 12 -> "12"

\* C4: get_core_stats_filtered sends {"group": group} when group is given
\* (whether or not jobid is), {"group": "job/<jobid>"} when only jobid is given,
\* and {} when neither is.
C4_FilteredPayloadPrecedence ==
    \A c \in Calls :
        (Invoked(c) /\ call[c].op = "get_core_stats_filtered")
        => /\ Len(requests[c]) = 1
           /\ requests[c][1].payload =
                Some(IF call[c].group.some
                     THEN JObj([group |-> JStr(call[c].group.v)])
                     ELSE IF call[c].jobid.some
                          THEN JObj([group |-> JStr("job/" \o JobIdText(call[c].jobid.v))])
                          ELSE JObj(<<>>))

\* C4 witness: a call with both a group and a jobid has sent its request.
C4_Witness ==
    \E c \in Calls :
        /\ Invoked(c) /\ call[c].op = "get_core_stats_filtered"
        /\ call[c].group = Some("g1") /\ call[c].jobid = Some(12)
        /\ requests[c][1].payload = Some(JObj([group |-> JStr("g1")]))

\* C5: get_job_stats sends exactly {"jobid": jobid} without a group and exactly
\* {"jobid": jobid, "group": group} with one.
C5_JobStatsPayload ==
    \A c \in Calls :
        (Invoked(c) /\ call[c].op = "get_job_stats")
        => /\ Len(requests[c]) = 1
           /\ requests[c][1].payload =
                Some(IF call[c].group.some
                     THEN JObj([jobid |-> JNum(call[c].jobid.v),
                                group |-> JStr(call[c].group.v)])
                     ELSE JObj([jobid |-> JNum(call[c].jobid.v)]))

\* C5 witness: a call with a group has sent both keys.
C5_Witness ==
    \E c \in Calls :
        /\ Invoked(c) /\ call[c].op = "get_job_stats"
        /\ call[c].group = Some("job/7") /\ call[c].jobid = Some(12)
        /\ DOMAIN requests[c][1].payload.v.o = {"jobid", "group"}

OwnOutcome(c) ==
    IF ~Answered(c)
    THEN Err(SendErrorPrefix(call[c].op) \o response[c].v.error)
    ELSE Finish(call[c].op, windows, response[c].v.status,
                BodyText(response[c].v)).result

\* C8: no step of any call changes the shared client handle or the engine API
\* address; a call's result is what its own parameters and its own answer give,
\* so calls with the same parameters and the same answer send the same request
\* and return the same result, whatever else is in flight.
C8_SharedStateReadOnly ==
    /\ [][client' = client /\ apiBase' = apiBase]_vars
    /\ [](\A c, d \in Calls :
            /\ Done(c) => Returned(c) = OwnOutcome(c)
            /\ (Invoked(c) /\ Invoked(d) /\ call[c] = call[d])
                 => requests[c] = requests[d]
            /\ (Done(c) /\ Done(d) /\ call[c] = call[d] /\ response[c] = response[d])
                 => result[c] = result[d])

\* C8 witness: two calls with the same parameters got different answers, the
\* second while the first was still awaiting its body, and both have ended.
C8_Witness ==
    \E c, d \in Calls :
        /\ c # d /\ Done(c) /\ Done(d)
        /\ call[c] = call[d] /\ response[c] # response[d]
        /\ Returned(c).ok /\ ~Returned(d).ok

\* C9: when reading the body fails, the call ends as it does for an empty body:
\* with a non-success status in the status error that carries the code and no
\* body text, with a success status in the outcome of an empty body.
C9_ReadFailureIsEmptyBody ==
    \A c \in Calls :
        (Done(c) /\ Answered(c) /\ ~response[c].v.readable)
        => /\ body[c] = Some("")
           /\ Returned(c)
                = Finish(call[c].op, windows, response[c].v.status, "").result
           /\ IF response[c].v.status >= 200 /\ response[c].v.status < 300
              THEN /\ IsParseError(Returned(c))
                   /\ EndsWith(Returned(c).err,
                               ": EOF while parsing a value at line 1 column 0")
              ELSE /\ IsStatusError(Returned(c))
                   /\ Contains(Returned(c).err, ToDecimal(response[c].v.status))
                   /\ EndsWith(Returned(c).err, ": ")

\* C9 witness: a 500 whose body (a document) could not be read has ended in the
\* status error.
C9_Witness ==
    \E c \in Calls :
        /\ Done(c) /\ Answered(c) /\ ~response[c].v.readable
        /\ response[c].v.status = 500 /\ response[c].v.json.some
        /\ Len(response[c].v.text) > 0
        /\ IsStatusError(Returned(c))

IsPrefix(s, t) == Len(s) <= Len(t) /\ SubSeq(t, 1, Len(s)) = s

InTrace(c, step) == \E i \in DOMAIN trace[c] : trace[c][i] = step

\* C10: the steps run in the order send, status, body text, status check,
\* deserialization, normalization.  A transport failure ends the call with
\* neither status nor body looked at; a non-success status ends it in the
\* status error without the body being parsed, valid JSON or not; parsing
\* happens only after a success status, normalization only for
\* get_completed_transfers after parsing.
C10_CheckOrder ==
    \A c \in Calls :
        /\ IsPrefix(trace[c], <<"send", "status", "text", "check", "parse", "normalize">>)
        /\ (Done(c) /\ ~Answered(c))
             => /\ IsTransportError(Returned(c))
                /\ status[c] = None /\ body[c] = None
                /\ trace[c] = <<"send">>
        /\ (Done(c) /\ Answered(c)
               /\ (response[c].v.status < 200 \/ response[c].v.status >= 300))
             => /\ IsStatusError(Returned(c))
                /\ ~InTrace(c, "parse")
        /\ InTrace(c, "parse")
             => response[c].v.status >= 200 /\ response[c].v.status < 300
        /\ InTrace(c, "normalize")
             => call[c].op = "get_completed_transfers" /\ Returned(c).ok
        /\ (Done(c) /\ Returned(c).ok) => InTrace(c, "parse")

\* C10 witness: a 500 with a valid JSON body has ended in the status error.
C10_Witness ==
    \E c \in Calls :
        /\ Done(c) /\ Answered(c)
        /\ response[c].v.status = 500 /\ response[c].v.readable
        /\ response[c].v.json.some
        /\ IsStatusError(Returned(c))
        /\ trace[c] = <<"send", "status", "text", "check">>
=============================================================================
